---- MODULE Spec2Model ----
(***************************************************************************)
(* Model of nvidia_fan_controller.py: the PIDController class and the      *)
(* control loop of main().                                                 *)
(*                                                                         *)
(* Real-valued quantities (x_target, u, e_prev, e_total, the bounds) are   *)
(* held as integers in units of 1/Scale.  The coefficients Kp, Ki, Kd,     *)
(* gamma and alpha are held in tenths.  Scale is chosen so that every      *)
(* product the controller forms within MaxCalls calls is an exact          *)
(* multiple of 1/Scale (ArithExact checks this), i.e. the model computes   *)
(* the control law over the rationals.                                     *)
(***************************************************************************)
EXTENDS Integers, Sequences, FiniteSets, TLC

\* ------------------------------------------------------------------ bounds
\* largest number of operations applied to the stand-alone controller
MaxCalls == 3
\* largest number of iterations of the control loop
MaxIter == 2

\* ------------------------------------------------------- number encoding
RECURSIVE Pow10(_)
Pow10(n) == IF n = 0 THEN 1 ELSE 10 * Pow10(n - 1)

\* 1/Scale is the unit of every real-valued quantity: 10^MaxCalls for the
\* gamma products, 2 for the Kp and alpha halves, 9 for temp / 0.9
Scale == 18 * Pow10(IF MaxCalls > MaxIter THEN MaxCalls ELSE MaxIter)

\* the coefficients are tenths
CoefDen == Pow10(1)

\* float('inf'): larger than every finite value of the model, only compared
Inf == 2000000000

\* a real number given as an integer
Real(n) == n * Scale

\* coefficient (tenths) times value
Mul(k, v) == (k * v) \div CoefDen

\* python's max and min of two numbers
Max(a, b) == IF b > a THEN b ELSE a
Min(a, b) == IF b < a THEN b ELSE a

\* python's round() of a float to an int: nearest, ties to even
Round(v) ==
    LET q == v \div Scale
        r == v % Scale
    IN  IF 2 * r < Scale THEN q
        ELSE IF 2 * r > Scale THEN q + 1
        ELSE IF q % 2 = 0 THEN q ELSE q + 1

\* ------------------------------------------------------- PIDController
\* mutant of reset_state: the accumulated error survives the reset
reset_state_keeps_e_total(self) ==
    [self EXCEPT !.u = self.u_start, !.e_prev = 0]

\* u_start is <<>> for None, <<v>> for a given value
reset_state(self) ==
    [self EXCEPT !.u = self.u_start, !.e_total = 0, !.e_prev = 0]

\* the x_target property setter
set_x_target(self, x_target_new) ==
    reset_state([self EXCEPT !.x_target = x_target_new])

\* __init__
PIDController(a) ==
    LET self == [u_min       |-> a.u_min,
                 u_max       |-> a.u_max,
                 u_start     |-> IF a.u_start = <<>>
                                 THEN (a.u_min + a.u_max) \div 2
                                 ELSE a.u_start[1],
                 x_target    |-> a.x_target,
                 reverse     |-> a.reverse,
                 Kp          |-> a.Kp,
                 Ki          |-> a.Ki,
                 Kd          |-> a.Kd,
                 gamma       |-> a.gamma,
                 alpha       |-> a.alpha,
                 e_min       |-> a.e_min,
                 e_max       |-> a.e_max,
                 e_total_min |-> a.e_total_min,
                 e_total_max |-> a.e_total_max,
                 u           |-> 0,
                 e_total     |-> 0,
                 e_prev      |-> 0]
    IN  reset_state(set_x_target(self, a.x_target))

\* mutant of residual: the reverse flag is ignored
residual_ignores_reverse(self, x_obs) ==
    Max(self.e_min, Min(self.e_max, x_obs - self.x_target))

\* the residual after clipping and sign flip
residual(self, x_obs) ==
    LET e == Max(self.e_min, Min(self.e_max, x_obs - self.x_target))
    IN  IF self.reverse THEN -e ELSE e

\* mutant of e_smooth: the derivative's difference in place of the average
e_smooth_differences(self, x_obs) == residual(self, x_obs) - self.e_prev

\* Polyak smoothing for the proportional term
e_smooth(self, x_obs) ==
    Mul(self.alpha, residual(self, x_obs))
      + Mul(CoefDen - self.alpha, self.e_prev)

\* the PID terms
p_term(self, x_obs) == e_smooth(self, x_obs)
i_term(self, x_obs) == residual(self, x_obs) + Mul(self.gamma, self.e_total)
d_term(self, x_obs) == residual(self, x_obs) - self.e_prev

\* mutant of u_raw: the control signal is added to the stored u
u_raw_incremental(self, x_obs) ==
    self.u + Mul(self.Kp, p_term(self, x_obs))
      + Mul(self.Ki, i_term(self, x_obs)) + Mul(self.Kd, d_term(self, x_obs))

\* Kp * p + Ki * i + Kd * d
u_raw(self, x_obs) ==
    Mul(self.Kp, p_term(self, x_obs)) + Mul(self.Ki, i_term(self, x_obs))
      + Mul(self.Kd, d_term(self, x_obs))

\* mutant of u_clipped: the upper clip is missing
u_clipped_no_max(self, x_obs) == Max(self.u_min, u_raw(self, x_obs))

\* control variable (clipped to provided range)
u_clipped(self, x_obs) ==
    Max(self.u_min, Min(self.u_max, u_raw(self, x_obs)))

\* mutant of e_total_clipped: the accumulated error is stored as computed
e_total_unclipped(self, x_obs) == i_term(self, x_obs)

\* the clipped accumulated error
e_total_clipped(self, x_obs) ==
    Max(self.e_total_min, Min(self.e_total_max, i_term(self, x_obs)))

\* mutant of call: the state is committed whether or not u moves
call_always_commits(self, x_obs) ==
    [self EXCEPT !.u = u_clipped(self, x_obs),
                 !.e_total = e_total_clipped(self, x_obs),
                 !.e_prev = e_smooth(self, x_obs)]

\* __call__: the controller after the call; the call returns its u
call(self, x_obs) ==
    IF u_clipped(self, x_obs) # self.u
    THEN [self EXCEPT !.u = u_clipped(self, x_obs),
                      !.e_total = e_total_clipped(self, x_obs),
                      !.e_prev = e_smooth(self, x_obs)]
    ELSE self

\* mutant of call_result: the u stored before the call is returned
call_result_stale(self, x_obs) == self.u

\* the value __call__ returns
call_result(self, x_obs) == call(self, x_obs).u

\* every product formed by __call__ is an exact multiple of 1/Scale
Exact(self, x_obs) ==
    /\ (self.alpha * residual(self, x_obs)) % CoefDen = 0
    /\ ((CoefDen - self.alpha) * self.e_prev) % CoefDen = 0
    /\ (self.gamma * self.e_total) % CoefDen = 0
    /\ (self.Kp * p_term(self, x_obs)) % CoefDen = 0
    /\ (self.Ki * i_term(self, x_obs)) % CoefDen = 0
    /\ (self.Kd * d_term(self, x_obs)) % CoefDen = 0

\* the keyword defaults of __init__
Defaults(x_target, u_min, u_max) ==
    [x_target |-> Real(x_target), u_min |-> Real(u_min), u_max |-> Real(u_max),
     u_start |-> <<>>, reverse |-> FALSE,
     Kp |-> 5, Ki |-> 10, Kd |-> 10, gamma |-> 9, alpha |-> 5,
     e_min |-> -Inf, e_max |-> Inf, e_total_min |-> -Inf, e_total_max |-> Inf]

\* ------------------------------------------------------------------ state
VARIABLES
    pc,            \* position of main(), or "harness" for a lone controller
    controllers,   \* index -> PIDController
    probe,         \* <<>>, or <<ids>> of the get_measurements() of line 246
    snapshot,      \* <<>>, or <<ids>> of the get_measurements() of line 252
    entered,       \* ManualFanControl.__enter__ has set GPUFanControlState=1
    released,      \* ManualFanControl.__exit__ has run
    measurements,  \* the rest of the measurements the for loop walks
    index,         \* the for loop's index
    fan_speed,     \* the for loop's fan_speed
    exc,           \* the exception that is propagating or ended main()
    events,        \* the calls made since the loop's last get_measurements()
    iter,          \* completed loop iterations
    ncalls,        \* operations applied to the lone controller
    lastcall       \* the last operation on a controller, with its pre-state

vars == <<pc, controllers, probe, snapshot, entered, released, measurements,
          index, fan_speed, exc, events, iter, ncalls, lastcall>>

loop_vars == <<probe, snapshot, entered, released, measurements, index,
               fan_speed, exc, events, iter>>

NoCall == [op |-> "none", streak |-> 0]

\* the record of a __call__ on controller i, self, with observation x_obs
CallRecord(i, self, x_obs) ==
    [op   |-> "call", id |-> i, x |-> x_obs,
     pre  |-> self,
     cand |-> u_clipped(self, x_obs),
     ret  |-> call_result(self, x_obs),
     \* how many calls in a row have left the stored u where it was
     streak |-> IF u_clipped(self, x_obs) = self.u
                THEN lastcall.streak + 1 ELSE 0]

\* ------------------------------------------- a controller on its own
\* the configurations the lone controller is constructed with
Configs ==
    { \* the defaults, started inside the range
      [u_start |-> <<Real(50)>>] @@ Defaults(60, 10, 100),
      \* main()'s arguments for a hot GPU: u_start = 99 / 0.9
      [u_start |-> <<Real(110)>>, e_total_min |-> Real(-10)]
          @@ Defaults(80, 10, 100),
      \* reverse control with clipped errors, no smoothing, no discount
      [reverse |-> TRUE, gamma |-> 10, alpha |-> 10,
       e_min |-> Real(-5), e_max |-> Real(5),
       e_total_min |-> Real(-3), e_total_max |-> Real(3)]
          @@ Defaults(60, -20, 20),
      \* negative and zero gains on a range of one point
      [Kp |-> -5, Ki |-> 0, Kd |-> 5, gamma |-> 0, alpha |-> 0]
          @@ Defaults(60, 20, 20),
      \* an accumulated-error range that excludes 0
      [u_start |-> <<Real(10)>>, e_total_min |-> Real(2),
       e_total_max |-> Real(8)] @@ Defaults(60, 10, 100) }

\* the observations and the setpoints the lone controller is given
Observations == {30, 60, 70, 90}
Targets == {60, 80}

CtlInit ==
    /\ pc = "harness"
    /\ \E a \in Configs : controllers = (0 :> PIDController(a))
    /\ probe = <<>> /\ snapshot = <<>>
    /\ entered = FALSE /\ released = FALSE
    /\ measurements = <<>> /\ index = 0 /\ fan_speed = 0
    /\ exc = "none" /\ events = <<>> /\ iter = 0
    /\ ncalls = 0
    /\ lastcall = NoCall

\* controller(x_obs)
Update(x_obs) ==
    /\ pc = "harness"
    /\ ncalls < MaxCalls
    /\ controllers' = [controllers EXCEPT ![0] = call(@, Real(x_obs))]
    /\ lastcall' = CallRecord(0, controllers[0], Real(x_obs))
    /\ ncalls' = ncalls + 1
    /\ UNCHANGED <<pc, loop_vars>>

\* controller.x_target = x_target_new
SetTarget(x_target_new) ==
    /\ pc = "harness"
    /\ ncalls < MaxCalls
    /\ controllers' =
         [controllers EXCEPT ![0] = set_x_target(@, Real(x_target_new))]
    /\ lastcall' = [op |-> "set", id |-> 0, x |-> Real(x_target_new),
                    pre |-> controllers[0], streak |-> 0]
    /\ ncalls' = ncalls + 1
    /\ UNCHANGED <<pc, loop_vars>>

CtlNext ==
    \/ \E x_obs \in Observations : Update(x_obs)
    \/ \E x_target_new \in Targets : SetTarget(x_target_new)

CtlSpec == CtlInit /\ [][CtlNext]_vars

\* the arithmetic of the last call lost nothing
ArithExact == lastcall.op = "call" => Exact(lastcall.pre, lastcall.x)

\* ------------------------------------------------------------ main()
\* --target-temperature
TargetTemperature == 80

\* the GPUs nvidia-smi may list
Units == {0, 1}

\* temperatures and fan speeds nvidia-smi reports at startup and in the loop
StartTemps == {45, 99}
StartSpeeds == {60}
LoopTemps == {45, 99}
LoopSpeeds == {60}

\* values nvidia-settings reports for GPUTargetFanSpeed
FanSpeeds == {10, 43}

\* the ids of S in ascending order
RECURSIVE Ascending(_)
Ascending(S) ==
    IF S = {} THEN <<>>
    ELSE LET m == CHOOSE x \in S : \A y \in S : x <= y
         IN  <<m>> \o Ascending(S \ {m})

\* what get_measurements() can return: [(index, temperature, fanspeed)],
\* one row per listed GPU; no row matched gives the empty list
Readings(temps, speeds) ==
    UNION { { [k \in 1..Len(Ascending(S)) |->
                 <<Ascending(S)[k], f[Ascending(S)[k]][1],
                   f[Ascending(S)[k]][2]>>] :
              f \in [S -> temps \X speeds] } : S \in SUBSET Units }

Ids(m) == { m[k][1] : k \in 1..Len(m) }

\* mutant of no_gpu: the startup check never fires
no_gpu_never(m) == FALSE

\* not get_measurements()
no_gpu(m) == m = <<>>

\* temp / 0.9
DivBy09(temp) == (Real(temp) * 10) \div 9

\* the dict comprehension of lines 250-252 (a later row of an index wins)
build_controllers(m) ==
    [i \in Ids(m) |->
        LET k == CHOOSE k \in 1..Len(m) :
                   m[k][1] = i /\ \A j \in 1..Len(m) : m[j][1] = i => j <= k
        IN  PIDController(
              [u_start |-> <<Max(DivBy09(m[k][2]), Real(m[k][3]))>>,
               e_total_min |-> Real(-10)]
                @@ Defaults(TargetTemperature, 10, 100))]

\* mutant of lookup: a missing index gets a controller made on the spot
lookup_or_create(table, i) ==
    IF i \in DOMAIN table THEN <<table[i]>>
    ELSE <<PIDController([e_total_min |-> Real(-10)]
                           @@ Defaults(TargetTemperature, 10, 100))>>

\* controllers[index]: <<>> stands for the KeyError
lookup(table, i) == IF i \in DOMAIN table THEN <<table[i]>> ELSE <<>>

\* mutant of non_trivial: the fan speed is always written
always_write(new_speed, current) == TRUE

\* fan_speed != get_fan_speed(index)
non_trivial(new_speed, current) == new_speed # current

\* mutant of raise_in_with: the exception leaves main() at once
raise_skips_exit == "terminated"

\* mutant of raise_in_with: the failure is swallowed and the loop reads again
raise_retries == "read"

\* where an exception raised in the body of the with statement goes
raise_in_with == "exit"

\* mutant of next_unit: the loop reads again without sleeping
next_unit_rereads(rest) == IF rest = <<>> THEN "read" ELSE "unit"

\* where the for loop goes after a unit
next_unit(rest) == IF rest = <<>> THEN "sleep" ELSE "unit"

\* mutant of raise_in_enter: the failure is ignored and the body runs
enter_failure_ignored == "read"

\* where an exception raised by __enter__ goes: out of main(), the with
\* statement runs neither its body nor __exit__
raise_in_enter == "terminated"

Init ==
    /\ pc = "check"
    /\ controllers = <<>>
    /\ probe = <<>> /\ snapshot = <<>>
    /\ entered = FALSE /\ released = FALSE
    /\ measurements = <<>> /\ index = 0 /\ fan_speed = 0
    /\ exc = "none" /\ events = <<>> /\ iter = 0
    /\ ncalls = 0
    /\ lastcall = NoCall

\* line 246: if not get_measurements(): raise RuntimeError
CheckGpus ==
    /\ pc = "check"
    /\ \/ /\ pc' = "terminated" /\ exc' = "CalledProcessError"
          /\ UNCHANGED probe
       \/ \E m \in Readings(StartTemps, StartSpeeds) :
            /\ probe' = <<Ids(m)>>
            /\ IF no_gpu(m)
               THEN pc' = "terminated" /\ exc' = "RuntimeError: no gpu detected"
               ELSE pc' = "build" /\ exc' = exc
    /\ UNCHANGED <<controllers, snapshot, entered, released, measurements,
                   index, fan_speed, events, iter, ncalls, lastcall>>

\* lines 250-252: one controller per row of a second get_measurements()
BuildControllers ==
    /\ pc = "build"
    /\ \/ /\ pc' = "terminated" /\ exc' = "CalledProcessError"
          /\ UNCHANGED <<controllers, snapshot>>
       \/ \E m \in Readings(StartTemps, StartSpeeds) :
            /\ controllers' = build_controllers(m)
            /\ snapshot' = <<Ids(m)>>
            /\ pc' = "enter" /\ exc' = exc
    /\ UNCHANGED <<probe, entered, released, measurements, index, fan_speed,
                   events, iter, ncalls, lastcall>>

\* ManualFanControl.__enter__
Enter ==
    /\ pc = "enter"
    /\ \/ /\ pc' = raise_in_enter /\ exc' = "CalledProcessError"
          /\ UNCHANGED entered
       \/ /\ entered' = TRUE
          /\ pc' = "read" /\ exc' = exc
    /\ UNCHANGED <<controllers, probe, snapshot, released, measurements,
                   index, fan_speed, events, iter, ncalls, lastcall>>

\* line 256: for index, temp, _ in get_measurements()
ReadMeasurements ==
    /\ pc = "read"
    /\ iter < MaxIter
    /\ \/ /\ pc' = raise_in_with /\ exc' = "CalledProcessError"
          /\ events' = <<[call |-> "get_measurements", ok |-> FALSE]>>
          /\ UNCHANGED measurements
       \/ \E m \in Readings(LoopTemps, LoopSpeeds) :
            /\ measurements' = m
            /\ events' = <<[call |-> "get_measurements", ok |-> TRUE]>>
            /\ pc' = next_unit(m) /\ exc' = exc
    /\ UNCHANGED <<controllers, probe, snapshot, entered, released, index,
                   fan_speed, iter, ncalls, lastcall>>

\* lines 258-259: controller = controllers[index]; controller(temp)
UpdateUnit ==
    /\ pc = "unit"
    /\ index' = Head(measurements)[1]
    /\ measurements' = Tail(measurements)
    /\ LET temp == Head(measurements)[2]
           found == lookup(controllers, index')
       IN  IF found = <<>>
           THEN /\ pc' = raise_in_with /\ exc' = "KeyError"
                /\ UNCHANGED <<controllers, fan_speed, events, lastcall>>
           ELSE /\ controllers' = (index' :> call(found[1], Real(temp)))
                                    @@ controllers
                /\ fan_speed' = Round(call_result(found[1], Real(temp)))
                /\ lastcall' = CallRecord(index', found[1], Real(temp))
                /\ events' = Append(events,
                     [call |-> "controller", index |-> index',
                      fan_speed |-> fan_speed'])
                /\ pc' = "get_fan" /\ exc' = exc
    /\ UNCHANGED <<probe, snapshot, entered, released, iter, ncalls>>

\* line 262: fan_speed != get_fan_speed(index)
GetFanSpeed ==
    /\ pc = "get_fan"
    /\ \/ /\ pc' = raise_in_with /\ exc' = "CalledProcessError"
          /\ events' = Append(events,
               [call |-> "get_fan_speed", index |-> index, ok |-> FALSE])
       \/ \* int() of output that is no number
          /\ pc' = raise_in_with /\ exc' = "ValueError"
          /\ events' = Append(events,
               [call |-> "get_fan_speed", index |-> index, ok |-> FALSE])
       \/ \E current \in FanSpeeds :
            /\ events' = Append(events,
                 [call |-> "get_fan_speed", index |-> index, ok |-> TRUE,
                  current |-> current])
            /\ pc' = IF non_trivial(fan_speed, current)
                     THEN "set_fan" ELSE next_unit(measurements)
            /\ exc' = exc
    /\ UNCHANGED <<controllers, probe, snapshot, entered, released,
                   measurements, index, fan_speed, iter, ncalls, lastcall>>

\* line 263: set_fan_speed(index, fan_speed)
SetFanSpeed ==
    /\ pc = "set_fan"
    /\ \/ /\ pc' = raise_in_with /\ exc' = "CalledProcessError"
          /\ events' = Append(events,
               [call |-> "set_fan_speed", index |-> index,
                fan_speed |-> fan_speed, ok |-> FALSE])
       \/ /\ events' = Append(events,
               [call |-> "set_fan_speed", index |-> index,
                fan_speed |-> fan_speed, ok |-> TRUE])
          /\ pc' = next_unit(measurements) /\ exc' = exc
    /\ UNCHANGED <<controllers, probe, snapshot, entered, released,
                   measurements, index, fan_speed, iter, ncalls, lastcall>>

\* line 265: sleep(args.interval_secs)
Sleep ==
    /\ pc = "sleep"
    /\ iter' = iter + 1
    /\ pc' = "read"
    /\ UNCHANGED <<controllers, probe, snapshot, entered, released,
                   measurements, index, fan_speed, exc, events, ncalls,
                   lastcall>>

\* ManualFanControl.__exit__, then the exception leaves main()
Exit ==
    /\ pc = "exit"
    /\ released' = TRUE
    /\ pc' = "terminated"
    /\ \/ exc' = "CalledProcessError"
       \/ exc' = exc
    /\ UNCHANGED <<controllers, probe, snapshot, entered, measurements,
                   index, fan_speed, events, iter, ncalls, lastcall>>

Next ==
    \/ CheckGpus
    \/ BuildControllers
    \/ Enter
    \/ ReadMeasurements
    \/ UpdateUnit
    \/ GetFanSpeed
    \/ SetFanSpeed
    \/ Sleep
    \/ Exit

Spec == Init /\ [][Next]_vars

\* ----------------------------------------------------------- the claims
InRange(lo, v, hi) == lo <= v /\ v <= hi

\* C1: with u_min <= u_max, the value every call of the controller returns
\* lies in [u_min, u_max], whatever the configuration and the calls before.
C1_UpdateInRange ==
    (lastcall.op = "call" /\ lastcall.pre.u_min <= lastcall.pre.u_max)
      => InRange(lastcall.pre.u_min, lastcall.ret, lastcall.pre.u_max)

\* a call that found the stored u above the range and whose raw control
\* signal fell below it returned u_min
C1_Witness ==
    /\ lastcall.op = "call"
    /\ lastcall.pre.u > lastcall.pre.u_max
    /\ u_raw(lastcall.pre, lastcall.x) < lastcall.pre.u_min
    /\ lastcall.ret = lastcall.pre.u_min

\* C2: the stored u of every controller lies in [u_min, u_max] in every
\* state, the one right after construction by main() included.
C2_StoredUInRange ==
    \A i \in DOMAIN controllers :
        InRange(controllers[i].u_min, controllers[i].u, controllers[i].u_max)

\* C3: a call whose clipped candidate equals the stored u leaves e_prev and
\* e_total as they were and returns the stored u.
C3_NoMoveFreezes ==
    (lastcall.op = "call" /\ lastcall.cand = lastcall.pre.u)
      => /\ controllers[lastcall.id].e_prev = lastcall.pre.e_prev
         /\ controllers[lastcall.id].e_total = lastcall.pre.e_total
         /\ controllers[lastcall.id].u = lastcall.pre.u
         /\ lastcall.ret = lastcall.pre.u

\* the second call in a row that pushes below u_min while u sits at u_min,
\* with error memory from the call that took it there
C3_Witness ==
    /\ lastcall.op = "call"
    /\ lastcall.streak >= 2
    /\ lastcall.pre.u = lastcall.pre.u_min
    /\ u_raw(lastcall.pre, lastcall.x) < lastcall.pre.u_min
    /\ lastcall.pre.e_total # 0
    /\ i_term(lastcall.pre, lastcall.x) # lastcall.pre.e_total

\* C4: after a call that commits (its candidate differs from the stored u),
\* e_total lies in [e_total_min, e_total_max].
C4_ETotalClamped ==
    (/\ lastcall.op = "call"
     /\ lastcall.cand # lastcall.pre.u
     /\ lastcall.pre.e_total_min <= lastcall.pre.e_total_max)
      => InRange(lastcall.pre.e_total_min, controllers[lastcall.id].e_total,
                 lastcall.pre.e_total_max)

\* a committing call whose integral term fell below a configured lower
\* bound, made on a controller that already held accumulated error
C4_Witness ==
    /\ lastcall.op = "call"
    /\ lastcall.cand # lastcall.pre.u
    /\ lastcall.pre.e_total_min > -Inf
    /\ lastcall.pre.e_total # 0
    /\ i_term(lastcall.pre, lastcall.x) < lastcall.pre.e_total_min
    /\ controllers[lastcall.id].e_total = lastcall.pre.e_total_min

\* C5: setting the target leaves u = u_start, e_prev = 0, e_total = 0 and
\* x_target = the new target, and the configuration as it was.
C5_SetTargetResets ==
    lastcall.op = "set"
      => controllers[lastcall.id] =
           [lastcall.pre EXCEPT !.u = lastcall.pre.u_start, !.e_prev = 0,
                                !.e_total = 0, !.x_target = lastcall.x]

\* the target is set to the value it has, on a controller with history
C5_Witness ==
    /\ lastcall.op = "set"
    /\ lastcall.x = lastcall.pre.x_target
    /\ lastcall.pre.u # lastcall.pre.u_start
    /\ lastcall.pre.e_prev # 0
    /\ lastcall.pre.e_total # 0
    /\ controllers[lastcall.id].e_total = 0

\* C6: when main() has ended after __enter__ set manual control, __exit__
\* has run.
C6_ReleaseOnEveryExit ==
    (pc = "terminated" /\ entered) => released

\* main() ended on unparseable get_fan_speed output, with the release done
C6_Witness ==
    /\ pc = "terminated"
    /\ entered
    /\ released
    /\ events # <<>>
    /\ events[Len(events)].call = "get_fan_speed"
    /\ ~events[Len(events)].ok

\* C7: a unit of a loop read that has no controller is skipped and the loop
\* goes on with the rest of the read, raising nothing.
C7_UnknownUnitSkipped ==
    [][(pc = "unit" /\ Head(measurements)[1] \notin DOMAIN controllers)
         => /\ measurements' = Tail(measurements)
            /\ pc' = next_unit(measurements')
            /\ exc' = "none"]_vars

\* C8: no controller call, get_fan_speed or set_fan_speed is made for a unit
\* that was not in the read the controllers were built from.
C8_UnknownUnitUntouched ==
    /\ \A k \in 1..Len(events) :
         events[k].call \in {"controller", "get_fan_speed", "set_fan_speed"}
           => events[k].index \in snapshot[1]
    /\ (lastcall.op = "call" /\ pc # "harness") => lastcall.id \in snapshot[1]
    /\ pc \in {"get_fan", "set_fan"} => index \in snapshot[1]

\* a loop read listed a unit that has no controller after a unit that has
\* one: the known unit was served, the unknown one was not
C8_Witness ==
    /\ exc = "KeyError"
    /\ index \notin snapshot[1]
    /\ Len(events) > 2
    /\ events[2].call = "controller"
    /\ events[2].index \in snapshot[1]

\* C9: if the get_measurements() of the startup check returns nothing,
\* main() ends with "no gpu detected", no controller has been constructed
\* and manual control has not been set.
C9_NoGpuFailsFirst ==
    probe = <<{}>>
      => /\ pc = "terminated"
         /\ exc = "RuntimeError: no gpu detected"
         /\ DOMAIN controllers = {}
         /\ snapshot = <<>>
         /\ ~entered /\ ~released
         /\ events = <<>>

C9_Witness ==
    /\ probe = <<{}>>
    /\ pc = "terminated"
    /\ exc = "RuntimeError: no gpu detected"

\* C10: in an iteration, set_fan_speed(index, fan_speed) is called for a
\* unit exactly when fan_speed differs from what get_fan_speed(index)
\* returned for it in that iteration, and with that fan_speed.
C10_WriteIffDiffers ==
    \A k \in 1..Len(events) :
      /\ (events[k].call = "get_fan_speed" /\ events[k].ok)
           => /\ events[k - 1].call = "controller"
              /\ events[k - 1].index = events[k].index
              /\ LET v == events[k - 1].fan_speed
                     written ==
                       IF k < Len(events)
                       THEN /\ events[k + 1].call = "set_fan_speed"
                            /\ events[k + 1].index = events[k].index
                            /\ events[k + 1].fan_speed = v
                       ELSE /\ pc = "set_fan"
                            /\ index = events[k].index
                            /\ fan_speed = v
                 IN  written <=> (v # events[k].current)
      /\ events[k].call = "set_fan_speed"
           => /\ events[k - 1].call = "get_fan_speed"
              /\ events[k - 1].ok
              /\ events[k - 1].index = events[k].index

\* one iteration served a unit whose speed was already as computed, with
\* no write, and then wrote the speed of another unit
C10_Witness ==
    /\ Len(events) >= 6
    /\ events[3].call = "get_fan_speed" /\ events[3].ok
    /\ events[3].current = events[2].fan_speed
    /\ events[4].call = "controller"
    /\ events[5].call = "get_fan_speed" /\ events[5].ok
    /\ events[5].current # events[4].fan_speed
    /\ events[6].call = "set_fan_speed"
    /\ events[6].fan_speed = 43

\* ------------------------------------------- construction, any arguments
\* arguments whose bounds are the wrong way round
InvertedConfigs ==
    { [u_start |-> <<Real(50)>>] @@ Defaults(60, 100, 10),
      [e_min |-> Real(5), e_max |-> Real(-5)] @@ Defaults(60, 10, 100),
      [e_total_min |-> Real(3), e_total_max |-> Real(-3)]
          @@ Defaults(60, 10, 100) }

CtorInit ==
    /\ pc = "construct"
    /\ controllers = <<>>
    /\ probe = <<>> /\ snapshot = <<>>
    /\ entered = FALSE /\ released = FALSE
    /\ measurements = <<>> /\ index = 0 /\ fan_speed = 0
    /\ exc = "none" /\ events = <<>> /\ iter = 0
    /\ ncalls = 0
    /\ lastcall = NoCall

\* PIDController(**a): __init__ stores its arguments and raises nothing
Construct(a) ==
    /\ pc = "construct"
    /\ controllers' = (0 :> PIDController(a))
    /\ pc' = "harness"
    /\ UNCHANGED <<loop_vars, ncalls, lastcall>>

CtorNext ==
    \/ \E a \in Configs \cup InvertedConfigs : Construct(a)
    \/ \E x_obs \in Observations : Update(x_obs)
    \/ \E x_target_new \in Targets : SetTarget(x_target_new)

CtorSpec == CtorInit /\ [][CtorNext]_vars

Ordered(self) ==
    /\ self.u_min <= self.u_max
    /\ self.e_min <= self.e_max
    /\ self.e_total_min <= self.e_total_max

\* C11: no controller exists whose bounds are the wrong way round, and none
\* is ever called: construction with such bounds fails.
C11_InvertedBoundsRejected ==
    /\ \A i \in DOMAIN controllers : Ordered(controllers[i])
    /\ lastcall.op = "call" => Ordered(lastcall.pre)

\* a gateway call of the loop that failed
Failed(ev) ==
    /\ ev.call \in {"get_measurements", "get_fan_speed", "set_fan_speed"}
    /\ ~ev.ok

HasFailed == \E k \in 1..Len(events) : Failed(events[k])

\* C12: once a get_measurements, get_fan_speed or set_fan_speed of the loop
\* has failed, it is the last call the loop makes: no call is retried, no
\* controller is called, and main() ends with the exception.
C12_FailureIsFatal ==
    /\ [](HasFailed
            => /\ Failed(events[Len(events)])
               /\ \A k \in 1..(Len(events) - 1) : ~Failed(events[k])
               /\ pc \in {"exit", "terminated"}
               /\ exc \in {"CalledProcessError", "ValueError"})
    /\ [][HasFailed
            => /\ events' = events
               /\ controllers' = controllers
               /\ lastcall' = lastcall
               /\ pc' = "terminated"
               /\ exc' # "none"]_vars

\* main() has ended on a set_fan_speed that failed, after a served unit
C12_Witness ==
    /\ pc = "terminated"
    /\ HasFailed
    /\ events[Len(events)].call = "set_fan_speed"
    /\ exc = "CalledProcessError"
    /\ iter >= 1

\* Scenario A: x_target=60, u_min=10, u_max=100, u_start=50, default gains
ScenarioA == [u_start |-> <<Real(50)>>] @@ Defaults(60, 10, 100)

\* the last operation was controller(70) on a fresh Scenario A controller
FirstUpdate70 ==
    /\ lastcall.op = "call"
    /\ lastcall.pre = PIDController(ScenarioA)
    /\ lastcall.x = Real(70)

\* C13 as stated: the first controller(70) of Scenario A returns a value in
\* [10, 100] that is greater than 50.
C13_ScenarioA_Above50 ==
    FirstUpdate70
      => /\ InRange(Real(10), lastcall.ret, Real(100))
         /\ lastcall.ret > Real(50)

\* C13 as amended: the first controller(70) of Scenario A returns 22.5
\* (0.5 * 5 + 1.0 * 10 + 1.0 * 10), which is in [10, 100] and below 50.
C13_ScenarioA_Returns22_5 ==
    FirstUpdate70
      => /\ 2 * lastcall.ret = Real(45)
         /\ InRange(Real(10), lastcall.ret, Real(100))
         /\ lastcall.ret < Real(50)
         /\ controllers[lastcall.id].u = lastcall.ret

C13_Witness ==
    /\ FirstUpdate70
    /\ ncalls = 1
    /\ 2 * controllers[0].u = Real(45)
    /\ controllers[0].e_total = Real(10)
    /\ controllers[0].e_prev = Real(5)

\* ------------------------------- two controllers, reverse and not reverse
\* the arguments both controllers share
PairConfigs ==
    { ScenarioA,
      \* error clamps that mirror each other
      [e_min |-> Real(-5), e_max |-> Real(5),
       e_total_min |-> Real(-8), e_total_max |-> Real(8)]
          @@ Defaults(60, -20, 20),
      \* error clamps that do not
      [e_min |-> Real(-5), e_max |-> Real(20)] @@ Defaults(60, 10, 100) }

\* x_obs - x_target of the controller that is not reversed
Deltas == {-30, -10, 10, 30}

PairInit ==
    /\ pc = "pair"
    /\ \E a \in PairConfigs :
         controllers = (0 :> PIDController([reverse |-> FALSE] @@ a))
                         @@ (1 :> PIDController([reverse |-> TRUE] @@ a))
    /\ probe = <<>> /\ snapshot = <<>>
    /\ entered = FALSE /\ released = FALSE
    /\ measurements = <<>> /\ index = 0 /\ fan_speed = 0
    /\ exc = "none" /\ events = <<>> /\ iter = 0
    /\ ncalls = 0
    /\ lastcall = NoCall

\* controller 0 observes x_target + d, controller 1 observes x_target - d
PairUpdate(d) ==
    /\ pc = "pair"
    /\ ncalls < MaxCalls
    /\ controllers' =
         (0 :> call(controllers[0], controllers[0].x_target + Real(d)))
           @@ (1 :> call(controllers[1], controllers[1].x_target - Real(d)))
    /\ lastcall' = [op |-> "pair", d |-> Real(d), pre0 |-> controllers[0],
                    pre1 |-> controllers[1], streak |-> 0]
    /\ ncalls' = ncalls + 1
    /\ UNCHANGED <<pc, loop_vars>>

PairNext == \E d \in Deltas : PairUpdate(d)

PairSpec == PairInit /\ [][PairNext]_vars

\* the arithmetic of the last pair of calls lost nothing
PairExact ==
    lastcall.op = "pair"
      => /\ Exact(lastcall.pre0, lastcall.pre0.x_target + lastcall.d)
         /\ Exact(lastcall.pre1, lastcall.pre1.x_target - lastcall.d)

\* the unclipped control signals of the last pair of calls
PairRaw0 == u_raw(lastcall.pre0, lastcall.pre0.x_target + lastcall.d)
PairRaw1 == u_raw(lastcall.pre1, lastcall.pre1.x_target - lastcall.d)

\* C14 as stated: on mirrored observations the reverse controller's e_prev,
\* e_total and unclipped control signal are the negation of the other's.
C14_ReverseNegates ==
    lastcall.op = "pair"
      => /\ controllers[1].e_prev = -controllers[0].e_prev
         /\ controllers[1].e_total = -controllers[0].e_total
         /\ PairRaw1 = -PairRaw0

\* C14 as amended: on mirrored observations, with error clamps that mirror
\* each other (e_min = -e_max), the reverse controller's e_prev, e_total,
\* unclipped control signal and u are equal to the other's.
C14_ReverseOnMirrorIsSame ==
    (lastcall.op = "pair" /\ lastcall.pre0.e_min = -lastcall.pre0.e_max)
      => /\ controllers[1] = [controllers[0] EXCEPT !.reverse = TRUE]
         /\ PairRaw1 = PairRaw0

\* the second pair of calls with finite mirrored clamps that clip the error
C14_Witness ==
    /\ lastcall.op = "pair"
    /\ ncalls >= 2
    /\ lastcall.pre0.e_min = -lastcall.pre0.e_max
    /\ lastcall.pre0.e_max < lastcall.d
    /\ controllers[1].reverse /\ ~controllers[0].reverse
    /\ controllers[1].e_prev # 0
    /\ controllers[1].e_total = controllers[0].e_total
    /\ controllers[1].e_total # 0
    /\ PairRaw1 # 0

\* ------------------------------------- Scenario B: observing the target
\* Any MaxCalls operations on a Scenario A controller, then an unbroken run
\* of controller(x_target).  The run is longer than the number of calls
\* Scale keeps exact: in it Mul rounds each product down to a multiple of
\* 1/Scale, a fixed-point stand-in for the rounding of binary64.
SettleInit ==
    /\ pc = "harness"
    /\ controllers = (0 :> PIDController(ScenarioA))
    /\ probe = <<>> /\ snapshot = <<>>
    /\ entered = FALSE /\ released = FALSE
    /\ measurements = <<>> /\ index = 0 /\ fan_speed = 0
    /\ exc = "none" /\ events = <<>> /\ iter = 0
    /\ ncalls = 0
    /\ lastcall = NoCall

\* the run of controller(x_target) begins
BeginRun ==
    /\ pc = "harness"
    /\ pc' = "run"
    /\ UNCHANGED <<controllers, loop_vars, ncalls, lastcall>>

\* controller(x_target), the observation equal to the target
Settle ==
    /\ pc = "run"
    /\ controllers' =
         [controllers EXCEPT ![0] = call(@, controllers[0].x_target)]
    /\ lastcall' =
         [CallRecord(0, controllers[0], controllers[0].x_target)
            EXCEPT !.streak = 0]
    /\ UNCHANGED <<pc, loop_vars, ncalls>>

SettleNext ==
    \/ \E x_obs \in Observations : Update(x_obs)
    \/ \E x_target_new \in Targets : SetTarget(x_target_new)
    \/ BeginRun
    \/ Settle

\* the run goes on: the caller keeps calling
SettleSpec == SettleInit /\ [][SettleNext]_vars /\ WF_vars(Settle)

\* in the run, the candidate for the target is the stored u
Stable ==
    /\ pc = "run"
    /\ u_clipped(controllers[0], controllers[0].x_target) = controllers[0].u

\* C15: a run of controller(x_target) from any reachable state of Scenario A
\* reaches a state from which every further call returns the same u and
\* changes none of u, e_prev, e_total.
C15_SettlesOnTarget ==
    /\ (pc = "run") ~> Stable
    /\ [][Stable => /\ Stable'
                    /\ controllers' = controllers
                    /\ lastcall'.ret = controllers[0].u]_vars

\* the run has settled at u_min after at least eleven committed calls
\* halved an e_prev of 15 or more
C15_Witness ==
    /\ Stable
    /\ controllers[0].u = controllers[0].u_min
    /\ controllers[0].e_prev > 0
    /\ 100 * controllers[0].e_prev < Real(1)
    /\ controllers[0].e_total > Real(9)
    /\ controllers[0].e_total < Real(10)

\* C16: once the controllers are built, no step of main() adds, removes or
\* replaces one: the keys stay those of the read they were built from, and
\* a controller changes only by being called with the measurement of its
\* own unit; the controller of a unit missing from a read is left as it is.
C16_RegistryFixed ==
    /\ [](snapshot # <<>> => DOMAIN controllers = snapshot[1])
    /\ [][snapshot # <<>>
            => /\ DOMAIN controllers' = DOMAIN controllers
               /\ \A i \in DOMAIN controllers :
                    \/ controllers'[i] = controllers[i]
                    \/ /\ pc = "unit"
                       /\ Head(measurements)[1] = i
                       /\ controllers'[i] =
                            call(controllers[i], Real(Head(measurements)[2]))
                       /\ \A j \in DOMAIN controllers \ {i} :
                            controllers'[j] = controllers[j]]_vars

\* the second iteration's read listed only unit 1: unit 0 still has its
\* controller, with the state the first iteration left
C16_Witness ==
    /\ pc = "sleep"
    /\ iter = 1
    /\ snapshot = <<{0, 1}>>
    /\ Len(events) >= 3
    /\ \A k \in 2..Len(events) : events[k].index = 1
    /\ DOMAIN controllers = {0, 1}
    /\ controllers[0].e_total # 0
    /\ controllers[0].u # controllers[0].u_start

\* the last call of the iteration so far
LastEvent == events[Len(events)]

\* the calls of one iteration are in order: one get_measurements first,
\* then for each unit controller, get_fan_speed, and set_fan_speed or not
EventsInOrder ==
    /\ events # <<>> => events[1].call = "get_measurements"
    /\ \A k \in 2..Len(events) :
         /\ events[k].call # "get_measurements"
         /\ events[1].ok
         /\ events[k].call = "controller"
              => \/ k = 2
                 \/ /\ events[k - 1].call \in {"get_fan_speed", "set_fan_speed"}
                    /\ events[k - 1].ok
                    /\ events[k - 1].index # events[k].index
         /\ events[k].call = "get_fan_speed"
              => /\ events[k - 1].call = "controller"
                 /\ events[k - 1].index = events[k].index
         /\ events[k].call = "set_fan_speed"
              => /\ events[k - 1].call = "get_fan_speed"
                 /\ events[k - 1].ok
                 /\ events[k - 1].index = events[k].index

\* C17: each iteration makes one get_measurements, first; each unit gets its
\* controller call, then its own get_fan_speed, then set_fan_speed or not;
\* the sleep comes when no unit is left, and the next get_measurements only
\* after the sleep.
C17_StrictOrder ==
    /\ []EventsInOrder
    /\ [](pc = "get_fan"
            => /\ LastEvent.call = "controller"
               /\ LastEvent.index = index
               /\ LastEvent.fan_speed = fan_speed)
    /\ [](pc = "set_fan"
            => /\ LastEvent.call = "get_fan_speed"
               /\ LastEvent.ok
               /\ LastEvent.index = index)
    /\ [](pc = "sleep"
            => /\ measurements = <<>>
               /\ LastEvent.call \in
                    {"get_measurements", "get_fan_speed", "set_fan_speed"}
               /\ LastEvent.ok)
    /\ [][/\ (pc' = "read" /\ pc # "read")
               => /\ pc \in {"enter", "sleep"}
                  /\ pc = "sleep" => iter' = iter + 1
          /\ (pc = "read" /\ pc' # "read")
               => /\ Len(events') = 1
                  /\ events'[1].call = "get_measurements"
          /\ (pc # "read" /\ events' # events)
               => /\ Len(events') = Len(events) + 1
                  /\ SubSeq(events', 1, Len(events)) = events
                  /\ events'[Len(events')].call # "get_measurements"]_vars

\* after the sleep of the first iteration and before the second read: the
\* iteration read once, wrote for its first unit and not for its second
C17_Witness ==
    /\ pc = "read"
    /\ iter = 1
    /\ Len(events) = 6
    /\ events[1].call = "get_measurements"
    /\ events[2].call = "controller"
    /\ events[3].call = "get_fan_speed"
    /\ events[4].call = "set_fan_speed"
    /\ events[5].call = "controller"
    /\ events[6].call = "get_fan_speed"

\* main() is in the with block
Running == pc \in {"read", "unit", "get_fan", "set_fan", "sleep"}

\* C18: while the loop runs there is at least one controller, and the
\* controllers are those of the units of the read that passed the startup
\* check.
C18_RegistryIsCheckedRead ==
    Running
      => /\ DOMAIN controllers # {}
         /\ DOMAIN controllers = probe[1]

\* C19: every fan speed main() passes to set_fan_speed, or is about to, is
\* an integer from 10 to 100, also for a controller whose u_start is above
\* 100.
C19_WrittenSpeedInRange ==
    /\ \A k \in 1..Len(events) :
         events[k].call = "set_fan_speed"
           => events[k].fan_speed \in 10..100
    /\ pc = "set_fan" => fan_speed \in 10..100

\* the first speed written for a unit whose controller started at
\* u = 99 / 0.9 = 110
C19_Witness ==
    /\ events # <<>>
    /\ LastEvent.call = "set_fan_speed"
    /\ LastEvent.ok
    /\ lastcall.op = "call"
    /\ lastcall.id = LastEvent.index
    /\ lastcall.pre.u = Real(110)
    /\ LastEvent.fan_speed = Round(lastcall.ret)
    /\ LastEvent.fan_speed = 43

\* C20: every controller call, get_fan_speed and set_fan_speed of main() is
\* made after __enter__ has set manual control and before __exit__ runs; if
\* __enter__ fails, none is made.
C20_OnlyUnderManualControl ==
    /\ []((events # <<>> \/ lastcall.op = "call"
             \/ pc \in {"unit", "get_fan", "set_fan"}) => entered)
    /\ []((pc = "terminated" /\ ~entered)
            => events = <<>> /\ lastcall = NoCall /\ ~released)
    /\ [][(events' # events \/ lastcall' # lastcall)
            => entered /\ ~released /\ ~released']_vars
    /\ [][released => events' = events /\ lastcall' = lastcall
                        /\ controllers' = controllers]_vars

\* main() has ended with manual control released after a fan speed was set
C20_Witness ==
    /\ pc = "terminated"
    /\ entered
    /\ released
    /\ \E k \in 1..Len(events) :
         events[k].call = "set_fan_speed" /\ events[k].ok
    /\ lastcall.op = "call"

====
